---- MODULE Spec2Model ----
(***************************************************************************)
(* A model of the two snippets of "Misplaced, missing, or mismatched       *)
(* punctuation":                                                           *)
(*   punctuation_1_fixed.py  the module-level crawl-job literal `payload`  *)
(*   punctuation_4_fixed.py  extract_product_data(), which fetches every   *)
(*                           URL of product_urls, parses the body and      *)
(*                           appends {title, price} to product_data.       *)
(* Strings are sequences of characters, so that the text of an element is  *)
(* the concatenation of the strings below it.  A response body is the      *)
(* sequence of its tokens (start tags, end tags, character data).          *)
(***************************************************************************)
EXTENDS Integers, Sequences, FiniteSets, TLC

VARIABLES
    payload,        \* punctuation_1_fixed.py: the module global `payload`
    product_urls,   \* global read by the routine: the sequence of URLs
    headers,        \* global read by the routine: the header mapping
    product_data,   \* global accumulator the routine appends to
    web,            \* the environment: what a GET of each URL produces
    pc,             \* position of the routine's single thread of control
    it,             \* the for loop's list iterator: URLs consumed so far
    url,            \* loop variable
    response,       \* local: the Response of requests.get
    soup,           \* local: the parsed document
    title,          \* local
    price,          \* local
    err,            \* the exception that left the routine, if any
    inflight,       \* requests issued and not yet answered
    sent,           \* requests issued by the current call, in order
    runs            \* one entry per call: where product_data stood, how it ended

vars == <<payload, product_urls, headers, product_data, web, pc, it, url,
          response, soup, title, price, err, inflight, sent, runs>>

----------------------------------------------------------------------------
(* Bounds of the model. *)

\* longest product_urls
MaxUrls == 2
\* calls of extract_product_data in one behaviour
MaxRuns == 2
\* longest token sequence of a body in SpecPage
MaxBodyLen == 4

----------------------------------------------------------------------------
(* Values. *)

\* Python's None: the result of a find() that matches nothing.
None == <<"None">>
\* A name not yet bound.
Unbound == [unbound |-> TRUE]
Unset == <<"unset">>

URLS == {"u1", "u2"}

\* A token of a body.
Open(name, itemprop) == [k |-> "open", name |-> name, itemprop |-> itemprop, s |-> <<>>]
Close(name) == [k |-> "close", name |-> name, itemprop |-> "", s |-> <<>>]
Text(s) == [k |-> "text", name |-> "", itemprop |-> "", s |-> s]

\* What a GET produces: a Response (whatever its status), or a network failure.
Resp(status, content) == [kind |-> "response", status |-> status, content |-> content]
NetErr == [kind |-> "failure", status |-> 0, content |-> <<>>]
NoResponse == [kind |-> "unset", status |-> 0, content |-> <<>>]

\* A parsed element; no element.
NoElement == [name |-> "None", itemprop |-> "", text |-> None]

Range(s) == {s[k] : k \in 1..Len(s)}

SeqsUpTo(S, n) == UNION {[1..m -> S] : m \in 0..n}

----------------------------------------------------------------------------
(* punctuation_1_fixed.py *)

\* The literal with the brace of line 7 left out: filters swallows the rest.
PayloadMissingBrace ==
    [url |-> "https://www.amazon.com/",
     filters |-> [crawl |-> <<".*">>,
                  process |-> <<".*">>,
                  max_depth |-> 1,
                  scrape_params |-> [user_agent_type |-> "desktop"],
                  output |-> [type_ |-> "sitemap"]]]

PayloadLiteral ==
    [url |-> "https://www.amazon.com/",
     filters |-> [crawl |-> <<".*">>,
                  process |-> <<".*">>,
                  max_depth |-> 1],
     scrape_params |-> [user_agent_type |-> "desktop"],
     output |-> [type_ |-> "sitemap"]]

\* The module's one statement: payload = {...}
BuildPayload ==
    /\ payload = Unbound
    /\ payload' = PayloadLiteral
    /\ UNCHANGED <<product_urls, headers, product_data, web, pc, it, url,
                   response, soup, title, price, err, inflight, sent, runs>>

----------------------------------------------------------------------------
(* BeautifulSoup(response.content, 'html.parser'): the elements of the     *)
(* document in document order, each with its text.  A start tag opens an   *)
(* element inside the innermost open one; character data belongs to every  *)
(* open element; an end tag closes the innermost open element of that name *)
(* and everything opened inside it, and is dropped when no open element    *)
(* has that name; what is still open at the end of the body is closed      *)
(* there.                                                                  *)

RECURSIVE ParseFrom(_, _, _, _)
ParseFrom(body, j, elems, stack) ==
    IF j > Len(body) THEN elems
    ELSE LET tok == body[j] IN
         CASE tok.k = "open" ->
                ParseFrom(body, j + 1,
                          Append(elems, [name |-> tok.name,
                                         itemprop |-> tok.itemprop,
                                         text |-> <<>>]),
                          Append(stack, Len(elems) + 1))
           [] tok.k = "text" ->
                ParseFrom(body, j + 1,
                          [k \in 1..Len(elems) |->
                              IF k \in Range(stack)
                              THEN [elems[k] EXCEPT !.text = @ \o tok.s]
                              ELSE elems[k]],
                          stack)
           [] tok.k = "close" ->
                LET open == {p \in 1..Len(stack) : elems[stack[p]].name = tok.name}
                IN IF open = {} THEN ParseFrom(body, j + 1, elems, stack)
                   ELSE LET p == CHOOSE q \in open : \A r \in open : r <= q
                        IN ParseFrom(body, j + 1, elems, SubSeq(stack, 1, p - 1))

Parse(body) == ParseFrom(body, 1, <<>>, <<>>)

\* soup.find(name, attrs): the first element in document order with that
\* tag name and, when attrs names an itemprop, that itemprop; None otherwise.
\* itemprop = "" stands for a call without attrs.
Matches(e, name, itemprop) ==
    /\ e.name = name
    /\ itemprop # "" => e.itemprop = itemprop

RECURSIVE FindFrom(_, _, _, _)
FindFrom(doc, j, name, itemprop) ==
    IF j > Len(doc) THEN NoElement
    ELSE IF Matches(doc[j], name, itemprop) THEN doc[j]
    ELSE FindFrom(doc, j + 1, name, itemprop)

\* Variant of find: the last match in document order.
FindLast(doc, name, itemprop) ==
    IF \E j \in 1..Len(doc) : Matches(doc[j], name, itemprop)
    THEN doc[CHOOSE j \in 1..Len(doc) :
                /\ Matches(doc[j], name, itemprop)
                /\ \A k \in (j + 1)..Len(doc) : ~Matches(doc[k], name, itemprop)]
    ELSE NoElement

Find(doc, name, itemprop) == FindFrom(doc, 1, name, itemprop)

----------------------------------------------------------------------------
(* punctuation_4_fixed.py: extract_product_data *)

\* An exception leaves the routine: nothing in it catches.
Raise(e) ==
    /\ pc' = "raised"
    /\ err' = e
    /\ runs' = [runs EXCEPT ![Len(runs)].result = "raised"]

\* The caller calls extract_product_data().
Call ==
    /\ pc \in {"idle", "returned", "raised"}
    /\ Len(runs) < MaxRuns
    /\ pc' = "for"
    /\ it' = 0
    /\ url' = Unset
    /\ response' = NoResponse
    /\ soup' = <<>>
    /\ title' = Unset
    /\ price' = Unset
    /\ err' = ""
    /\ sent' = <<>>
    /\ runs' = Append(runs, [base |-> Len(product_data), result |-> "running"])
    /\ UNCHANGED <<payload, product_urls, headers, product_data, web, inflight>>

\* line 2: for url in product_urls
ForNext ==
    /\ pc = "for"
    /\ IF it < Len(product_urls)
       THEN /\ url' = product_urls[it + 1]
            /\ it' = it + 1
            /\ pc' = "get"
            /\ UNCHANGED runs
       ELSE /\ pc' = "returned"
            /\ runs' = [runs EXCEPT ![Len(runs)].result = "returned"]
            /\ UNCHANGED <<url, it>>
    /\ UNCHANGED <<payload, product_urls, headers, product_data, web,
                   response, soup, title, price, err, inflight, sent>>

\* Variant of line 3: requests.get(url), the headers left out.
SendGetNoHeaders ==
    /\ pc = "get"
    /\ inflight' = Append(inflight, [url |-> url, headers |-> <<>>])
    /\ sent' = Append(sent, [url |-> url, headers |-> <<>>])
    /\ pc' = "await"
    /\ UNCHANGED <<payload, product_urls, headers, product_data, web, it, url,
                   response, soup, title, price, err, runs>>

\* line 3: requests.get(url, headers=headers) sends the request ...
SendGet ==
    /\ pc = "get"
    /\ inflight' = Append(inflight, [url |-> url, headers |-> headers])
    /\ sent' = Append(sent, [url |-> url, headers |-> headers])
    /\ pc' = "await"
    /\ UNCHANGED <<payload, product_urls, headers, product_data, web, it, url,
                   response, soup, title, price, err, runs>>

\* Variant of line 3 followed by response.raise_for_status().
GetReturnsRaiseForStatus ==
    /\ pc = "await"
    /\ inflight # <<>>
    /\ LET out == web[Head(inflight).url] IN
       /\ inflight' = Tail(inflight)
       /\ IF out.kind = "failure"
          THEN /\ Raise("ConnectionError")
               /\ UNCHANGED response
          ELSE IF out.status # 200
          THEN /\ Raise("HTTPError")
               /\ response' = out
          ELSE /\ response' = out
               /\ pc' = "parse"
               /\ UNCHANGED <<err, runs>>
    /\ UNCHANGED <<payload, product_urls, headers, product_data, web, it, url,
                   soup, title, price, sent>>

\* ... and blocks until it is answered: a Response object for any status
\* (nothing calls raise_for_status), an exception for a network failure.
GetReturns ==
    /\ pc = "await"
    /\ inflight # <<>>
    /\ LET out == web[Head(inflight).url] IN
       /\ inflight' = Tail(inflight)
       /\ IF out.kind = "failure"
          THEN /\ Raise("ConnectionError")
               /\ UNCHANGED response
          ELSE /\ response' = out
               /\ pc' = "parse"
               /\ UNCHANGED <<err, runs>>
    /\ UNCHANGED <<payload, product_urls, headers, product_data, web, it, url,
                   soup, title, price, sent>>

\* line 4: soup = BeautifulSoup(response.content, 'html.parser')
ParseStep ==
    /\ pc = "parse"
    /\ soup' = Parse(response.content)
    /\ pc' = "title"
    /\ UNCHANGED <<payload, product_urls, headers, product_data, web, it, url,
                   response, title, price, err, inflight, sent, runs>>

\* Variant of line 5 that tolerates a missing h1 and keeps None.
TitleStepGuarded ==
    /\ pc = "title"
    /\ title' = Find(soup, "h1", "").text
    /\ pc' = "price"
    /\ UNCHANGED <<err, runs>>
    /\ UNCHANGED <<payload, product_urls, headers, product_data, web, it, url,
                   response, soup, price, inflight, sent>>

\* line 5: title = soup.find("h1").text; None has no attribute text
TitleStep ==
    /\ pc = "title"
    /\ LET e == Find(soup, "h1", "") IN
       IF e = NoElement
       THEN /\ Raise("AttributeError")
            /\ UNCHANGED title
       ELSE /\ title' = e.text
            /\ pc' = "price"
            /\ UNCHANGED <<err, runs>>
    /\ UNCHANGED <<payload, product_urls, headers, product_data, web, it, url,
                   response, soup, price, inflight, sent>>

\* soup.find(attrs={"itemprop": ...}): the first element of any tag.
AnyTagWithItemprop(doc, itemprop) ==
    IF \E j \in 1..Len(doc) : doc[j].itemprop = itemprop
    THEN doc[CHOOSE j \in 1..Len(doc) :
                /\ doc[j].itemprop = itemprop
                /\ \A k \in 1..(j - 1) : doc[k].itemprop # itemprop]
    ELSE NoElement

\* Variant of line 6 without the tag name: any tag with itemprop="price".
PriceStepAnyTag ==
    /\ pc = "price"
    /\ LET e == AnyTagWithItemprop(soup, "price") IN
       IF e = NoElement
       THEN /\ Raise("AttributeError")
            /\ UNCHANGED price
       ELSE /\ price' = e.text
            /\ pc' = "append"
            /\ UNCHANGED <<err, runs>>
    /\ UNCHANGED <<payload, product_urls, headers, product_data, web, it, url,
                   response, soup, title, inflight, sent>>

\* Variant of line 6 that skips a page without a price (continue).
PriceStepSkip ==
    /\ pc = "price"
    /\ LET e == Find(soup, "span", "price") IN
       IF e = NoElement
       THEN /\ pc' = "for"
            /\ UNCHANGED price
       ELSE /\ price' = e.text
            /\ pc' = "append"
    /\ UNCHANGED <<err, runs>>
    /\ UNCHANGED <<payload, product_urls, headers, product_data, web, it, url,
                   response, soup, title, inflight, sent>>

\* line 6: price = soup.find("span", {"itemprop": "price"}).text
PriceStep ==
    /\ pc = "price"
    /\ LET e == Find(soup, "span", "price") IN
       IF e = NoElement
       THEN /\ Raise("AttributeError")
            /\ UNCHANGED price
       ELSE /\ price' = e.text
            /\ pc' = "append"
            /\ UNCHANGED <<err, runs>>
    /\ UNCHANGED <<payload, product_urls, headers, product_data, web, it, url,
                   response, soup, title, inflight, sent>>

\* Variant of lines 7-10: insert before the records of this call.
AppendStepFront ==
    /\ pc = "append"
    /\ product_data' = SubSeq(product_data, 1, runs[Len(runs)].base)
                       \o <<[title |-> title, price |-> price]>>
                       \o SubSeq(product_data, runs[Len(runs)].base + 1, Len(product_data))
    /\ pc' = "for"
    /\ UNCHANGED <<payload, product_urls, headers, web, it, url,
                   response, soup, title, price, err, inflight, sent, runs>>

\* Variant of lines 7-10: append unless the record is already there.
AppendStepDedup ==
    /\ pc = "append"
    /\ product_data' = IF [title |-> title, price |-> price] \in Range(product_data)
                       THEN product_data
                       ELSE Append(product_data, [title |-> title, price |-> price])
    /\ pc' = "for"
    /\ UNCHANGED <<payload, product_urls, headers, web, it, url,
                   response, soup, title, price, err, inflight, sent, runs>>

\* Variant of lines 7-10: product_data = [{...}], an assignment.
AppendStepAssign ==
    /\ pc = "append"
    /\ product_data' = <<[title |-> title, price |-> price]>>
    /\ pc' = "for"
    /\ UNCHANGED <<payload, product_urls, headers, web, it, url,
                   response, soup, title, price, err, inflight, sent, runs>>

\* lines 7-10: product_data.append({"title": title, "price": price})
AppendStep ==
    /\ pc = "append"
    /\ product_data' = Append(product_data, [title |-> title, price |-> price])
    /\ pc' = "for"
    /\ UNCHANGED <<payload, product_urls, headers, web, it, url,
                   response, soup, title, price, err, inflight, sent, runs>>

Routine ==
    \/ ForNext
    \/ SendGet
    \/ GetReturns
    \/ ParseStep
    \/ TitleStep
    \/ PriceStep
    \/ AppendStep

Next ==
    \/ BuildPayload
    \/ Call
    \/ ForNext
    \/ SendGet
    \/ GetReturns
    \/ ParseStep
    \/ TitleStep
    \/ PriceStep
    \/ AppendStep

----------------------------------------------------------------------------
(* The inputs. *)

\* Bodies of the pages of Spec.
\* <h1>W</h1><span itemprop="price">$9</span>
PageWidget ==
    <<Open("h1", ""), Text(<<"W">>), Close("h1"),
      Open("span", "price"), Text(<<"$", "9">>), Close("span")>>
\* <h1>G</h1><div itemprop="price">7</div><span>x</span>
\* <span itemprop="price">5</span><h1>X</h1><span itemprop="price">8</span>
PageGadget ==
    <<Open("h1", ""), Text(<<"G">>), Close("h1"),
      Open("div", "price"), Text(<<"7">>), Close("div"),
      Open("span", ""), Text(<<"x">>), Close("span"),
      Open("span", "price"), Text(<<"5">>), Close("span"),
      Open("h1", ""), Text(<<"X">>), Close("h1"),
      Open("span", "price"), Text(<<"8">>), Close("span")>>
\* <span itemprop="price">$9</span>
PageNoH1 == <<Open("span", "price"), Text(<<"$", "9">>), Close("span")>>
\* <h1>W</h1>
PageNoPrice == <<Open("h1", ""), Text(<<"W">>), Close("h1")>>
\* <h1>D</h1><div itemprop="price">7</div>
PageDivPrice ==
    <<Open("h1", ""), Text(<<"D">>), Close("h1"),
      Open("div", "price"), Text(<<"7">>), Close("div")>>
\* <h1></h1><span itemprop="price"></span>
PageEmptyFields ==
    <<Open("h1", ""), Close("h1"), Open("span", "price"), Close("span")>>

Outcomes ==
    {Resp(200, PageWidget), Resp(200, PageGadget), Resp(200, PageNoH1),
     Resp(200, PageNoPrice), Resp(200, PageDivPrice), Resp(200, PageEmptyFields),
     Resp(200, <<>>), Resp(404, PageWidget), Resp(500, <<>>), NetErr}

HeaderChoices == {<<>>, <<<<"User-Agent", "x">>>>}

\* A record the accumulator held before the routine was ever called.
OldRecord == [title |-> <<"o">>, price |-> <<"1">>]

InitRoutine ==
    /\ payload = Unbound
    /\ pc = "idle"
    /\ it = 0
    /\ url = Unset
    /\ response = NoResponse
    /\ soup = <<>>
    /\ title = Unset
    /\ price = Unset
    /\ err = ""
    /\ inflight = <<>>
    /\ sent = <<>>
    /\ runs = <<>>

Init ==
    /\ product_urls \in SeqsUpTo(URLS, MaxUrls)
    /\ headers \in HeaderChoices
    /\ product_data \in {<<>>, <<OldRecord>>}
    /\ web \in [URLS -> Outcomes]
    /\ InitRoutine

Spec == Init /\ [][Next]_vars

\* The tokens of the bodies of SpecPage.
Tokens ==
    {Open("h1", ""), Open("span", "price"), Open("span", ""), Open("div", "price"),
     Text(<<"a">>), Close("h1"), Close("span"), Close("div")}

\* One URL, whose page is any body of at most MaxBodyLen tokens.
InitPage ==
    /\ product_urls = <<"u1">>
    /\ headers = <<>>
    /\ product_data = <<>>
    /\ \E out \in {Resp(200, b) : b \in SeqsUpTo(Tokens, MaxBodyLen)} \cup {NetErr} :
          web = [u \in URLS |-> out]
    /\ InitRoutine

SpecPage == InitPage /\ [][Next]_vars

----------------------------------------------------------------------------
(* Vocabulary of the properties. *)

\* Where product_data stood when the current call began.
Base == runs[Len(runs)].base

\* doc[j] is the first element of doc, in document order, with that tag name
\* and (unless itemprop = "") that itemprop.
IsFirst(doc, j, name, itemprop) ==
    /\ j \in 1..Len(doc)
    /\ Matches(doc[j], name, itemprop)
    /\ \A k \in 1..(j - 1) : ~Matches(doc[k], name, itemprop)

HasH1(doc) == \E j \in 1..Len(doc) : doc[j].name = "h1"
HasSpanPrice(doc) ==
    \E j \in 1..Len(doc) : doc[j].name = "span" /\ doc[j].itemprop = "price"
HasItempropPrice(doc) == \E j \in 1..Len(doc) : doc[j].itemprop = "price"

\* rec is the record of a page: the text of its first h1 and the text of its
\* first span with itemprop="price".
DerivedFrom(rec, body) ==
    LET doc == Parse(body) IN
    \E j, k \in 1..Len(doc) :
        /\ IsFirst(doc, j, "h1", "")
        /\ IsFirst(doc, k, "span", "price")
        /\ rec = [title |-> doc[j].text, price |-> doc[k].text]

IsPrefix(s, t) == Len(s) <= Len(t) /\ SubSeq(t, 1, Len(s)) = s

\* The records the r-th call appended, for a call that returned.
RecordsOf(r) ==
    SubSeq(product_data, runs[r].base + 1, runs[r].base + Len(product_urls))

----------------------------------------------------------------------------
(* Properties. *)

\* C1: when a call of extract_product_data returns, it has appended one
\* record per URL and the i-th record it appended is the record of the page
\* of the i-th URL of product_urls.
C1_InputOrder ==
    pc = "returned" =>
        /\ Len(product_data) = Base + Len(product_urls)
        /\ \A i \in 1..Len(product_urls) :
              DerivedFrom(product_data[Base + i], web[product_urls[i]].content)

\* C1: a call over two URLs whose pages give different records has returned.
C1_Witness ==
    /\ pc = "returned"
    /\ Len(product_urls) = 2
    /\ product_data[Base + 1] # product_data[Base + 2]

\* C2: a response whose body has an h1 and a span with itemprop="price" gets
\* exactly one record: none is appended before line 7 of its iteration, one
\* has been appended after it, that record holds the text of the first h1
\* and the text of the first such span of the body, and the iteration does
\* not end in an AttributeError.
C2_RecordOfPage ==
    /\ pc \in {"parse", "title", "price", "append"} =>
          Len(product_data) = Base + it - 1
    /\ (pc \in {"for", "returned"} /\ it >= 1) =>
          /\ Len(product_data) = Base + it
          /\ DerivedFrom(product_data[Len(product_data)], response.content)
    /\ (pc = "raised" /\ err = "AttributeError") =>
          ~(HasH1(Parse(response.content)) /\ HasSpanPrice(Parse(response.content)))

\* C2: the record of a page with two h1 and two priced spans has been appended.
C2_Witness ==
    /\ pc = "for"
    /\ it >= 1
    /\ response.content = PageGadget
    /\ product_data[Len(product_data)] = [title |-> <<"G">>, price |-> <<"5">>]

\* C3 as claimed: the price taken is the text of the first element of any
\* tag with itemprop="price", and a page with an h1 and such an element
\* yields a price.
C3_AnyTag ==
    /\ pc = "append" => price = AnyTagWithItemprop(soup, "price").text
    /\ (pc = "raised" /\ err = "AttributeError" /\ HasH1(soup)) =>
          ~HasItempropPrice(soup)

\* C3 amended: the price taken is the text of the first span element with
\* itemprop="price"; elements of other tags with itemprop="price" are passed
\* over, and a page with an h1 but no such span yields no price.
C3_FirstSpanPrice ==
    /\ pc = "append" =>
          \E j \in 1..Len(soup) :
              /\ IsFirst(soup, j, "span", "price")
              /\ price = soup[j].text
    /\ (pc = "raised" /\ err = "AttributeError" /\ HasH1(soup)) =>
          ~HasSpanPrice(soup)

\* C3: a price was taken from a span although an element of another tag with
\* itemprop="price" and another text comes first.
C3_Witness ==
    /\ pc = "append"
    /\ AnyTagWithItemprop(soup, "price").name = "div"
    /\ AnyTagWithItemprop(soup, "price").text # price

\* C4 as claimed: output holds the format under the key named type.
C4_OutputType ==
    payload # Unbound =>
        /\ "type" \in DOMAIN payload.output
        /\ payload.output["type"] = "sitemap"

\* C4 amended: the payload has the top-level keys url, filters, scrape_params
\* and output; filters has crawl and process (sequences of strings) and
\* max_depth (an integer); scrape_params has user_agent_type; output has the
\* single key type_ (with a trailing underscore), which holds "sitemap".
C4_PayloadShape ==
    payload # Unbound =>
        /\ DOMAIN payload = {"url", "filters", "scrape_params", "output"}
        /\ payload.url = "https://www.amazon.com/"
        /\ DOMAIN payload.filters = {"crawl", "process", "max_depth"}
        /\ payload.filters.crawl = <<".*">>
        /\ payload.filters.process = <<".*">>
        /\ payload.filters.max_depth \in Int
        /\ DOMAIN payload.scrape_params = {"user_agent_type"}
        /\ payload.scrape_params.user_agent_type = "desktop"
        /\ DOMAIN payload.output = {"type_"}
        /\ payload.output.type_ = "sitemap"

\* C4: the literal has been evaluated and bound to payload.
C4_Witness ==
    /\ payload # Unbound
    /\ payload.output.type_ = "sitemap"

\* Where product_data stood when the r-th call, a call that has ended, ended.
EndOf(r) == IF r < Len(runs) THEN runs[r + 1].base ELSE Len(product_data)

\* C5: every call that returned grew the accumulator by len(product_urls)
\* records, the calls that returned appended the same records in the same
\* order, and when all k calls so far have returned the accumulator has
\* grown by k * len(product_urls).
C5_NoDedup ==
    /\ \A r \in 1..Len(runs) :
          runs[r].result = "returned" =>
              EndOf(r) = runs[r].base + Len(product_urls)
    /\ \A r1, r2 \in 1..Len(runs) :
          (runs[r1].result = "returned" /\ runs[r2].result = "returned") =>
              RecordsOf(r1) = RecordsOf(r2)
    /\ (Len(runs) > 0 /\ \A r \in 1..Len(runs) : runs[r].result = "returned") =>
          Len(product_data) = runs[1].base + Len(runs) * Len(product_urls)

\* C5: two calls have returned, each having appended two equal records.
C5_Witness ==
    /\ Len(runs) = 2
    /\ runs[1].result = "returned"
    /\ runs[2].result = "returned"
    /\ Len(product_urls) = 2
    /\ product_data[runs[1].base + 1] = product_data[runs[1].base + 2]

\* C6: every record the routine has appended has exactly the keys title and
\* price, and each holds a string (the text of an element that was found,
\* possibly the empty string), never None and never an unassigned local.
C6_BothFields ==
    Len(runs) > 0 =>
        \A k \in (runs[1].base + 1)..Len(product_data) :
            /\ DOMAIN product_data[k] = {"title", "price"}
            /\ product_data[k].title \notin {None, Unset}
            /\ product_data[k].price \notin {None, Unset}

\* C6: a call was aborted after it had appended a record.
C6_Witness ==
    /\ pc = "raised"
    /\ Len(product_data) > Base

\* C7: at most one request is outstanding, and only while the routine waits
\* at line 3; the requests of a call are those of the first URLs of
\* product_urls, one each, in order, each with the headers mapping; a request
\* is outstanding only when the records of all earlier URLs have been
\* appended; a call that returns has issued one request per URL.
C7_Sequential ==
    /\ Len(inflight) <= 1
    /\ inflight # <<>> => pc = "await"
    /\ Len(runs) > 0 =>
          /\ Len(sent) = IF pc = "get" THEN it - 1 ELSE it
          /\ \A k \in 1..Len(sent) :
                sent[k] = [url |-> product_urls[k], headers |-> headers]
          /\ pc = "await" =>
                /\ inflight = <<sent[Len(sent)]>>
                /\ Len(product_data) = Base + Len(sent) - 1
          /\ pc = "returned" => Len(sent) = Len(product_urls)

\* C7: the request for the second URL is outstanding, with headers that are
\* not empty.
C7_Witness ==
    /\ pc = "await"
    /\ Len(sent) = 2
    /\ headers # <<>>

\* C8: at line 5 on a page without h1, and at line 6 on a page without a
\* span with itemprop="price", the routine raises AttributeError and appends
\* nothing; in the state this leaves, the records of URLs 1..i-1 are in
\* product_data as appended and none for URL i, the i-th request was the
\* last one issued and none is outstanding; and nothing more happens until
\* the routine is called again.
C8_AbortOnMissing ==
    /\ [][((pc = "title" /\ ~HasH1(soup)) \/ (pc = "price" /\ ~HasSpanPrice(soup)))
          /\ pc' # pc
          => /\ pc' = "raised"
             /\ err' = "AttributeError"
             /\ product_data' = product_data
             /\ sent' = sent]_vars
    /\ [](pc = "raised" /\ err = "AttributeError" =>
             /\ ~(HasH1(soup) /\ HasSpanPrice(soup))
             /\ Len(product_data) = Base + it - 1
             /\ \A i \in 1..(it - 1) :
                   DerivedFrom(product_data[Base + i], web[product_urls[i]].content)
             /\ Len(sent) = it
             /\ inflight = <<>>)
    /\ [][pc = "raised" =>
             \/ pc' = "raised" /\ product_data' = product_data /\ sent' = sent
                /\ inflight' = inflight
             \/ pc' = "for" /\ Len(runs') = Len(runs) + 1]_vars

\* C8: the call was aborted at its second URL, whose page lacks an element,
\* after the record of the first URL was appended.
C8_Witness ==
    /\ pc = "raised"
    /\ err = "AttributeError"
    /\ it = 2
    /\ Len(product_urls) = 2
    /\ Len(product_data) = Base + 1

\* C9 as claimed: no record is appended for a response with a non-success
\* status.
C9_StatusAborts ==
    (pc = "append" \/ (pc \in {"for", "returned"} /\ it >= 1)) =>
        response.status = 200

\* C9 amended: a network failure on the request raises out of the routine,
\* which aborts at that URL without appending a record for it; a response
\* with a non-success status raises nothing and is handed to the parser like
\* any other response.
C9_FailurePropagates ==
    /\ [][(pc = "await" /\ pc' # pc) =>
             IF web[url].kind = "failure"
             THEN /\ pc' = "raised"
                  /\ err' = "ConnectionError"
                  /\ product_data' = product_data
                  /\ response' = response
             ELSE /\ pc' = "parse"
                  /\ response' = web[url]
                  /\ err' = err]_vars
    /\ [](pc = "raised" /\ err = "ConnectionError" =>
             /\ web[url].kind = "failure"
             /\ Len(product_data) = Base + it - 1
             /\ Len(sent) = it)

\* C9: a call has returned after appending the record of a page that came
\* with status 404.
C9_Witness ==
    /\ pc = "returned"
    /\ response.status = 404
    /\ Len(product_data) > Base

\* C10: every step leaves what product_data held as a prefix of what it
\* holds next, and leaves product_urls and headers as they are; payload
\* changes only when the literal is bound to it, and never afterwards.
C10_AppendOnly ==
    [][/\ IsPrefix(product_data, product_data')
       /\ product_urls' = product_urls
       /\ headers' = headers
       /\ payload' # payload => (payload = Unbound /\ pc' = pc /\ product_data' = product_data)
       /\ Routine => payload' = payload]_vars

\* C10: the routine has appended to an accumulator that was not empty, with
\* the payload bound.
C10_Witness ==
    /\ Len(runs) > 0
    /\ runs[1].base > 0
    /\ Len(product_data) > runs[1].base
    /\ payload # Unbound

====
